---- MODULE Spec2Model ----
(***************************************************************************)
(* randoffee: random coffee groups.                                        *)
(*                                                                         *)
(* The module models the parts of the program, each under its own          *)
(* specification over the same variables:                                  *)
(*   SpecGen      random_groups, the partition generator (randomise.py)    *)
(*   SpecSim      Permutation.similarity_to (main.py)                      *)
(*   SpecWeighted weighted_similarity (run.py)                             *)
(*   SpecBest     choose_best_of (run.py)                                  *)
(*   SpecTarget   randomise_until_target (run.py)                          *)
(*   SpecTargetFair  that loop followed without end, the generator fair    *)
(*   SpecPair     Grouping.similarity_to (main.py)                         *)
(*   SpecJson     Permutation.to_json and from_json (main.py)              *)
(*   SpecLeader   adjust_leaders (leader.py) as main calls it (run.py)     *)
(*                                                                         *)
(* Participants are opaque identifiers (email strings in the program);     *)
(* they are modelled as the integers 1..n.  per_person_score and the       *)
(* weighted similarity are IEEE doubles in the program and exact           *)
(* rationals <<numerator, denominator>> in lowest terms here; math.inf is  *)
(* the pair <<1, 0>>.                                                      *)
(***************************************************************************)
EXTENDS Integers, Sequences, FiniteSets, TLC

VARIABLES
  elements_in,   \* random_groups: the list as the caller passed it
  elements,      \* random_groups: the caller's list object (shuffled in place)
  group_size,    \* random_groups: the group_size argument
  groups,        \* random_groups: the list of groups returned
  gen_status     \* "ready", "returned", "ValueError" or "IndexError"

genVars == <<elements_in, elements, group_size, groups, gen_status>>

VARIABLES
  self_perm,     \* similarity_to: the permutation the method is called on
  other_perm,    \* similarity_to: the `other` argument
  weighting,     \* similarity_to: "linear" or "quadratic"
  sim_result     \* similarity_to: the stats returned or the exception raised

simVars == <<self_perm, other_perm, weighting, sim_result>>

VARIABLES
  most_recent_perms,  \* run.py: the previous rounds, most recent first
  allow_imperfect,    \* run.py: the --allow-imperfect flag
  n_attempts,         \* choose_best_of: the attempt budget
  target_similarity,  \* randomise_until_target: the target score
  generated,          \* the candidates randomise has returned, in order
  perfect_perms,      \* choose_best_of: the candidates with similarity 0
  best_perm,          \* choose_best_of: the best candidate so far, or None
  best_similarity,    \* both searches: the lowest score seen so far
  count,              \* randomise_until_target: the iteration counter
  accepted_earlier,   \* randomise_until_target: a candidate that met the
                      \* acceptance condition was passed over
  permutation,        \* the permutation returned (or weighed), or None
  similarity_all,     \* the value weighted_similarity returned
  search_status,      \* "loop", "returned", "exit", an exception name, "idle"
  exit_date           \* the date named in the message of error()

searchVars ==
  <<most_recent_perms, allow_imperfect, n_attempts, target_similarity,
    generated, perfect_perms, best_perm, best_similarity, count,
    accepted_earlier, permutation, similarity_all, search_status, exit_date>>

VARIABLES
  grouping_self,   \* Grouping.similarity_to: the grouping it is called on
  grouping_other,  \* Grouping.similarity_to: the `other` argument
  grouping_excluding,  \* Grouping.similarity_to: the `excluding` argument
  grouping_result  \* the value of self.similarity_to(other, excluding) and of
                   \* other.similarity_to(self, excluding), as far as called

pairVars ==
  <<grouping_self, grouping_other, grouping_excluding, grouping_result>>

VARIABLES
  json_perm,     \* the permutation that is saved
  json_text,     \* the document to_json produced
  json_loaded,   \* the permutation from_json built
  json_status    \* "ready", "saved", "loaded", "ValueError", "idle"

jsonVars == <<json_perm, json_text, json_loaded, json_status>>

VARIABLES
  prev_perms,              \* the rounds stored in the directory "previous"
  adjust_perm,             \* adjust_leaders: the perm argument
  adjust_perm_in,          \* adjust_leaders: perm as the caller passed it
  metric,                  \* adjust_leaders: the metric argument
  score_for_first_timers,  \* adjust_leaders: the score the callable returns
  new_perm,                \* adjust_leaders: the permutation returned
  stats_before,            \* what perm.similarity_to(prev_perm) can yield
  stats_after,             \* what new_perm.similarity_to(prev_perm) yielded
  leader_status            \* "ready", "returned", "compared", "ValueError"

leaderVars ==
  <<prev_perms, adjust_perm, adjust_perm_in, metric, score_for_first_timers,
    new_perm, stats_before, stats_after, leader_status>>

vars == <<genVars, simVars, searchVars, pairVars, jsonVars, leaderVars>>

(***************************************************************************)
(* Bounds.                                                                 *)
(***************************************************************************)
MaxN == 7            \* longest participant list handed to random_groups
MaxGroupSize == 4    \* largest group_size handed to random_groups
SimPeople == 3       \* participants that occur in the rounds compared
MaxGroups == 2       \* most groups in a round that is compared
NRoster == 5         \* participants of the round that is searched for
SearchGroupSize == 2 \* the group_size the two searches are called with
HistoryChoices == 2  \* different rounds a previous round is drawn from
MaxWeighted == 5     \* longest history handed to weighted_similarity alone
MaxHistory == 2      \* longest history handed to the two searches
MaxAttempts == 2     \* largest n_attempts handed to choose_best_of
MaxCount == 3        \* iterations of randomise_until_target that are followed
PairPeople == 3      \* participants of the groupings compared and saved
JsonGroups == 2      \* most groups in a round that is saved
LeaderPeople == 3    \* participants of the rounds whose leaders are adjusted
LeaderHistory == 2   \* most rounds stored when leaders are adjusted

(***************************************************************************)
(* Helpers on sequences.                                                   *)
(***************************************************************************)
Range(s) == {s[i] : i \in 1..Len(s)}

Min(a, b) == IF a < b THEN a ELSE b

IsInjective(s) == \A i, j \in 1..Len(s) : s[i] = s[j] => i = j

RECURSIVE SetToSeq(_)
SetToSeq(S) ==
  IF S = {} THEN <<>>
  ELSE LET x == CHOOSE y \in S : TRUE IN <<x>> \o SetToSeq(S \ {x})

RECURSIVE Sum(_, _)
Sum(f, S) ==
  IF S = {} THEN 0
  ELSE LET x == CHOOSE y \in S : TRUE IN f[x] + Sum(f, S \ {x})

RECURSIVE GCD(_, _)
GCD(a, b) == IF b = 0 THEN a ELSE GCD(b, a % b)

\* The quotient n / d (n >= 0, d >= 0) as a pair in lowest terms; a positive
\* number over 0 is <<1, 0>>.
Ratio(n, d) ==
  IF GCD(n, d) = 0 THEN <<0, 0>> ELSE <<n \div GCD(n, d), d \div GCD(n, d)>>

Zero == <<0, 1>>

\* math.inf
Infinity == <<1, 0>>

RatLess(a, b) == a[1] * b[2] < b[1] * a[2]

RatAdd(a, b) == Ratio(a[1] * b[2] + b[1] * a[2], a[2] * b[2])

RatMul(a, b) == Ratio(a[1] * b[1], a[2] * b[2])

\* a / b for b > 0
RatDiv(a, b) == Ratio(a[1] * b[2], a[2] * b[1])

(***************************************************************************)
(* randomise.py                                                            *)
(***************************************************************************)

\* random.shuffle(elements): every reordering of the list is possible.
Shuffle(s) ==
  IF Len(s) = 0 THEN {<<>>}
  ELSE {[i \in 1..Len(s) |-> s[f[i]]] : f \in Permutations(1..Len(s))}

\* [elements[i : i + group_size] for i in range(0, len(elements), group_size)]
Slices(s, size) ==
  [k \in 1..((Len(s) + size - 1) \div size) |->
     SubSeq(s, (k - 1) * size + 1, Min(k * size, Len(s)))]

\* A sample drawn with replacement: what random.choices would return.
SampleWithReplacement(population, k) == [1..k -> 0..(population - 1)]

\* random.sample(range(population), k): the lists of k distinct indices
\* (0-based).  The set is empty when k > population, where random.sample
\* raises ValueError.
Sample(population, k) ==
  {s \in [1..k -> 0..(population - 1)] : IsInjective(s)}

\* groups[:-1] forgotten: the last, short group stays in the result.
KeepLast(gs) == gs

\* groups = groups[:-1]
DropLast(gs) == SubSeq(gs, 1, Len(gs) - 1)

\* The short last group is redistributed only when another group exists.
IsShortUnlessAlone(last_group_size, size, n_groups) ==
  last_group_size < size /\ n_groups > 1

\* if last_group_size < group_size:
IsShort(last_group_size, size, n_groups) == last_group_size < size

\* for ind, element in zip(oversize_group_inds, last_group):
\*     groups[ind].append(element)
\* zip stops at the shorter of the two lists; j is the position in the zip.
RECURSIVE AppendEach(_, _, _, _)
AppendEach(gs, inds, last_group, j) ==
  IF j > Min(Len(inds), Len(last_group)) THEN gs
  ELSE AppendEach([gs EXCEPT ![inds[j] + 1] = Append(@, last_group[j])],
                  inds, last_group, j + 1)

\* The outcomes of random_groups on an already shuffled list: a record
\* [status, groups].  groups[-1] raises IndexError on an empty list of
\* groups; random.sample raises ValueError when asked for more indices than
\* there are full groups.
RandomGroupsOutcomes(shuffled, size) ==
  LET sliced == Slices(shuffled, size) IN
  IF Len(sliced) = 0 THEN {[status |-> "IndexError", groups |-> <<>>]}
  ELSE
    LET last_group == sliced[Len(sliced)]
        last_group_size == Len(last_group)
    IN
    IF IsShort(last_group_size, size, Len(sliced)) THEN
      LET samples == Sample(Len(sliced) - 1, last_group_size) IN
      IF samples = {} THEN {[status |-> "ValueError", groups |-> <<>>]}
      ELSE {[status |-> "returned",
             groups |-> DropLast(AppendEach(sliced, inds, last_group, 1))] :
              inds \in samples}
    ELSE {[status |-> "returned", groups |-> sliced]}

\* def random_groups(elements, group_size)
random_groups ==
  /\ gen_status = "ready"
  /\ \E shuffled \in Shuffle(elements) :
       \E out \in RandomGroupsOutcomes(shuffled, group_size) :
         /\ elements' = shuffled
         /\ groups' = out.groups
         /\ gen_status' = out.status
  /\ UNCHANGED <<elements_in, group_size, simVars, searchVars, pairVars,
                 jsonVars, leaderVars>>

\* The call random_groups(list(names), GROUP_SIZE): a list of distinct
\* participants and a group size of at least 1.
GenStart ==
  /\ \E n \in 0..MaxN : elements_in = [i \in 1..n |-> i]
  /\ elements = elements_in
  /\ group_size \in 1..MaxGroupSize
  /\ groups = <<>>
  /\ gen_status = "ready"

GenIdle ==
  /\ elements_in = <<>>
  /\ elements = <<>>
  /\ group_size = 1
  /\ groups = <<>>
  /\ gen_status = "idle"

(***************************************************************************)
(* main.py: Grouping and Permutation.                                      *)
(***************************************************************************)

\* Grouping.__init__: others is stored as a set.
Grouping(leader, others) == [leader |-> leader, others |-> others]

\* Permutation.__init__
Permutation(date, gs) == [date |-> date, groups |-> gs]

\* Grouping.participants
participants(g) == {g.leader} \cup g.others

\* Permutation.participants
PermParticipants(perm) ==
  UNION {participants(perm.groups[k]) : k \in 1..Len(perm.groups)}

\* The count of common members without removing the excluded ones.
SimilarityIgnoringExcluded(self, other, excluding) ==
  Cardinality(participants(self) \cap participants(other))

\* The count of common members among the others, the leaders left out.
SimilarityOfOthers(self, other, excluding) ==
  Cardinality((self.others \ excluding) \cap (other.others \ excluding))

\* Grouping.similarity_to(other, excluding)
GroupingSimilarity(self, other, excluding) ==
  Cardinality((participants(self) \ excluding)
              \cap (participants(other) \ excluding))

\* [g for g in perm.groups if p in g.participants()]
GroupsWith(perm, p) ==
  SelectSeq(perm.groups, LAMBDA g : p \in participants(g))

\* One pass of the loop body of Permutation.similarity_to for person p:
\* "skip" (continue), "error" (raise ValueError naming p and a date) or "sim".
PersonStep(self, other, p) ==
  LET this_groups == GroupsWith(self, p)
      other_groups == GroupsWith(other, p)
  IN
  IF Len(this_groups) = 0 \/ Len(other_groups) = 0
    THEN [kind |-> "skip", sim |-> 0, date |-> 0]
  ELSE IF Len(this_groups) > 1
    THEN [kind |-> "error", sim |-> 0, date |-> self.date]
  ELSE IF Len(other_groups) > 1
    THEN [kind |-> "error", sim |-> 0, date |-> other.date]
  ELSE [kind |-> "sim",
        sim |-> GroupingSimilarity(this_groups[1], other_groups[1], {p}),
        date |-> 0]

\* The overlap added as it is under either weighting.
ScoreTermUnsquared(sim, w) == sim

\* What one person adds to score_total.
ScoreTerm(sim, w) ==
  IF w = "linear" THEN sim
  ELSE IF w = "quadratic" THEN sim * sim
  ELSE 0

\* Permutation.similarity_to(other, weighting): the set of outcomes.  The
\* loop runs over a Python set, so its order is arbitrary: when several
\* persons would raise, any of them may be the first one met.  Without an
\* error the sum does not depend on the order.  Two rounds without any
\* participant end in a division by zero.
SimilarityOutcomes(self, other, w) ==
  LET all_participants == PermParticipants(self) \cup PermParticipants(other)
      step == [p \in all_participants |-> PersonStep(self, other, p)]
      raising == {p \in all_participants : step[p].kind = "error"}
      repeats == {p \in all_participants : step[p].sim > 0}
      score_total ==
        Sum([p \in all_participants |-> ScoreTerm(step[p].sim, w)],
            all_participants)
  IN
  IF raising # {} THEN
    {[status |-> "ValueError", person |-> p, date |-> step[p].date] :
       p \in raising}
  ELSE IF all_participants = {} THEN {[status |-> "ZeroDivisionError"]}
  ELSE {[status |-> "ok",
         per_person_score |-> Ratio(score_total, Cardinality(all_participants)),
         persons_with_repeats |-> [p \in repeats |-> step[p].sim]]}

\* The per_person_score of self.similarity_to(other) under linear weighting
\* when the call returns (used by run.py on well-formed rounds).
PerPersonScore(self, other) ==
  (CHOOSE r \in SimilarityOutcomes(self, other, "linear") : TRUE).per_person_score

\* Permutation.similarity_to
similarity_to ==
  /\ sim_result.status = "ready"
  /\ \E w \in {"linear", "quadratic"} :
       /\ weighting' = w
       /\ sim_result' \in SimilarityOutcomes(self_perm, other_perm, w)
  /\ UNCHANGED <<self_perm, other_perm, genVars, searchVars, pairVars,
                 jsonVars, leaderVars>>

\* The groups a compared round is made of: non-empty sets of participants,
\* led by their smallest member.
SimGroupings ==
  {Grouping(CHOOSE l \in S : \A x \in S : l <= x,
            S \ {CHOOSE l \in S : \A x \in S : l <= x}) :
     S \in (SUBSET (1..SimPeople)) \ {{}}}

\* The rounds compared: up to MaxGroups groups, participants possibly in
\* more than one group (a round loaded from a file is not checked).
SimPermutations(date) ==
  {Permutation(date, SetToSeq(G)) :
     G \in {H \in SUBSET SimGroupings : Cardinality(H) <= MaxGroups}}

SimStart ==
  /\ self_perm \in SimPermutations(2)
  /\ other_perm \in SimPermutations(1)
  /\ weighting = "linear"
  /\ sim_result = [status |-> "ready"]

SimIdle ==
  /\ self_perm = Permutation(0, <<>>)
  /\ other_perm = Permutation(0, <<>>)
  /\ weighting = "linear"
  /\ sim_result = [status |-> "idle"]

(***************************************************************************)
(* run.py: weighted_similarity.                                            *)
(***************************************************************************)

\* best_perm = None
None == [date |-> 0, groups |-> <<>>]

\* weights = [1.0, 0.8, 0.5, 0.2]
weights == <<<<1, 1>>, <<4, 5>>, <<1, 2>>, <<1, 5>>>>

\* The sum of the weights that zip pairs with a round.
SumOfUsedWeights(ws, perms) ==
  LET RECURSIVE Upto(_)
      Upto(i) == IF i = 0 THEN Zero ELSE RatAdd(Upto(i - 1), ws[i])
  IN Upto(Min(Len(ws), Len(perms)))

\* sum(weights): all four weights, however many rounds there are.
SumOfWeights(ws, perms) ==
  LET RECURSIVE Upto(_)
      Upto(i) == IF i = 0 THEN Zero ELSE RatAdd(Upto(i - 1), ws[i])
  IN Upto(Len(ws))

\* sum(weight * perm.similarity_to(p).per_person_score
\*     for weight, p in zip(weights, most_recent_perms))
\* zip stops at the shorter list; i is the number of pairs summed.
RECURSIVE WeightedSum(_, _, _)
WeightedSum(perm, perms, i) ==
  IF i = 0 THEN Zero
  ELSE RatAdd(WeightedSum(perm, perms, i - 1),
              RatMul(weights[i], PerPersonScore(perm, perms[i])))

\* def weighted_similarity(perm, most_recent_perms)
weighted_similarity(perm, perms) ==
  RatDiv(WeightedSum(perm, perms, Min(Len(weights), Len(perms))),
         SumOfWeights(weights, perms))

\* A previous round, as loaded from a file: the participants who were there
\* (all the roster but its newest member), rotated by k places and sliced
\* into groups, the members of a short last slice joining the first group;
\* each group is led by its first member.
RotatedRound(date, k) ==
  LET n == NRoster - 1
      order == [i \in 1..n |-> ((i - 1 + k) % n) + 1]
      sliced == Slices(order, SearchGroupSize)
      last == sliced[Len(sliced)]
      gs == IF Len(sliced) > 1 /\ Len(last) < SearchGroupSize
              THEN DropLast([sliced EXCEPT ![1] = @ \o last])
              ELSE sliced
  IN Permutation(date, [j \in 1..Len(gs) |->
                          Grouping(gs[j][1], Range(Tail(gs[j])))])

\* The histories of a given length: most recent first, dated len, ..., 1.
Histories(len) ==
  {[i \in 1..len |-> RotatedRound(len + 1 - i, k[i])] :
     k \in [1..len -> 0..(HistoryChoices - 1)]}

SearchIdle ==
  /\ most_recent_perms = <<>>
  /\ allow_imperfect = FALSE
  /\ n_attempts = 0
  /\ target_similarity = Zero
  /\ generated = <<>>
  /\ perfect_perms = <<>>
  /\ best_perm = None
  /\ best_similarity = Infinity
  /\ count = 0
  /\ accepted_earlier = FALSE
  /\ permutation = None
  /\ similarity_all = Zero
  /\ search_status = "idle"
  /\ exit_date = 0

\* The call weighted_similarity(permutation, most_recent_perms) of main.
WeightedStart ==
  /\ \E len \in 0..MaxWeighted : most_recent_perms \in Histories(len)
  /\ \E k \in 0..(HistoryChoices - 1) :
       permutation = RotatedRound(Len(most_recent_perms) + 1, k)
  /\ allow_imperfect = FALSE
  /\ n_attempts = 0
  /\ target_similarity = Zero
  /\ generated = <<>>
  /\ perfect_perms = <<>>
  /\ best_perm = None
  /\ best_similarity = Infinity
  /\ count = 0
  /\ accepted_earlier = FALSE
  /\ similarity_all = Zero
  /\ search_status = "weigh"
  /\ exit_date = 0

\* print(weighted_similarity(permutation, most_recent_perms))
WeightedSimilarity ==
  /\ search_status = "weigh"
  /\ similarity_all' = weighted_similarity(permutation, most_recent_perms)
  /\ search_status' = "weighed"
  /\ UNCHANGED <<most_recent_perms, allow_imperfect, n_attempts,
                 target_similarity, generated, perfect_perms, best_perm,
                 best_similarity, count, accepted_earlier, permutation,
                 exit_date, genVars, simVars, pairVars, jsonVars,
                 leaderVars>>

(***************************************************************************)
(* run.py: choose_best_of and randomise_until_target.                      *)
(***************************************************************************)

\* [p.email for p in participants]
Roster == [i \in 1..NRoster |-> i]

\* randomise(emails, algorithm="full_random", group_size=group_size): the
\* outcomes, a record [status, perm].  The round is made by the partition
\* generator and the first member of each group leads it; the date is left
\* for Dated to fill in.
Randomise(emails, size) ==
  {[status |-> out.status,
    perm |-> IF out.status = "returned"
               THEN Permutation(0,
                      [j \in 1..Len(out.groups) |->
                         Grouping(out.groups[j][1], Range(Tail(out.groups[j])))])
               ELSE None] :
     out \in UNION {RandomGroupsOutcomes(shuffled, size) :
                      shuffled \in Shuffle(emails)}}

\* The outcomes of the call both searches make.
Candidates == Randomise(Roster, SearchGroupSize)

\* The new round is dated now, after every previous round.
Dated(perm, perms) == [perm EXCEPT !.date = Len(perms) + 1]

\* trial_permutation.similarity_to(most_recent_perms[0]).per_person_score
\* if most_recent_perms else 0
TrialSimilarity(perm, perms) ==
  IF Len(perms) > 0 THEN PerPersonScore(perm, perms[1]) ELSE Zero

\* The first candidate of the list as it stands: the sort left out.
FirstUnsorted(perms, history) == perms[1]

\* The index of the earliest candidate of lowest key among perms[1..i-1]
\* is `at` and its key is `key`; the result is that index for all of perms.
RECURSIVE EarliestLowest(_, _, _, _, _)
EarliestLowest(perms, history, i, at, key) ==
  IF i > Len(perms) THEN at
  ELSE LET k == weighted_similarity(perms[i], history) IN
       IF RatLess(k, key)
         THEN EarliestLowest(perms, history, i + 1, i, k)
         ELSE EarliestLowest(perms, history, i + 1, at, key)

\* perfect_perms.sort(key=lambda p: weighted_similarity(p, most_recent_perms))
\* followed by perfect_perms[0]: the sort is stable, so the result is the
\* earliest candidate whose key no other candidate is below.
FirstAfterSort(perms, history) ==
  perms[EarliestLowest(perms, history, 2, 1,
                       weighted_similarity(perms[1], history))]

\* The comparison left out: every candidate replaces the best one.
IsAlwaysBetter(trial_similarity, best) == TRUE

\* if trial_similarity < best_similarity:
IsBetter(trial_similarity, best) == RatLess(trial_similarity, best)

\* The body of "for _ in tqdm(range(n_attempts))" in choose_best_of.  An
\* exception raised by randomise ends the call.
BestIterate ==
  /\ search_status = "loop"
  /\ Len(generated) < n_attempts
  /\ \E out \in Candidates :
       IF out.status # "returned" THEN
         /\ search_status' = out.status
         /\ UNCHANGED <<generated, perfect_perms, best_perm, best_similarity>>
       ELSE
         LET trial_permutation == Dated(out.perm, most_recent_perms)
             trial_similarity ==
               TrialSimilarity(trial_permutation, most_recent_perms)
         IN
         /\ generated' = Append(generated, trial_permutation)
         /\ perfect_perms' =
              IF trial_similarity = Zero
                THEN Append(perfect_perms, trial_permutation)
                ELSE perfect_perms
         /\ IF IsBetter(trial_similarity, best_similarity)
              THEN /\ best_similarity' = trial_similarity
                   /\ best_perm' = trial_permutation
              ELSE UNCHANGED <<best_similarity, best_perm>>
         /\ UNCHANGED search_status
  /\ UNCHANGED <<most_recent_perms, allow_imperfect, n_attempts,
                 target_similarity, count, accepted_earlier, permutation,
                 similarity_all, exit_date, genVars, simVars, pairVars,
                 jsonVars, leaderVars>>

\* "Choose the best permutation" in choose_best_of, after the loop.  error()
\* prints and calls sys.exit(1); its message is built from
\* most_recent_perms[0] first, which raises IndexError on an empty history.
\* The round's date is read as .datetime by run.py and stored as .date by
\* main.py; the two are taken to be the same field.
BestChoose ==
  /\ search_status = "loop"
  /\ Len(generated) >= n_attempts
  /\ IF Len(perfect_perms) = 0 THEN
       IF allow_imperfect THEN
         /\ permutation' = best_perm
         /\ search_status' = "returned"
         /\ UNCHANGED exit_date
       ELSE IF Len(most_recent_perms) = 0 THEN
         /\ search_status' = "IndexError"
         /\ UNCHANGED <<permutation, exit_date>>
       ELSE
         /\ search_status' = "exit"
         /\ exit_date' = most_recent_perms[1].date
         /\ UNCHANGED permutation
     ELSE
       /\ permutation' = FirstAfterSort(perfect_perms, most_recent_perms)
       /\ search_status' = "returned"
       /\ UNCHANGED exit_date
  /\ UNCHANGED <<most_recent_perms, allow_imperfect, n_attempts,
                 target_similarity, generated, perfect_perms, best_perm,
                 best_similarity, count, accepted_earlier, similarity_all,
                 genVars, simVars, pairVars, jsonVars, leaderVars>>

\* choose_best_of(args.number, args.allow_imperfect, most_recent_perms, ...)
\* after its first three assignments.
BestStart ==
  /\ \E len \in 0..MaxHistory : most_recent_perms \in Histories(len)
  /\ allow_imperfect \in BOOLEAN
  /\ n_attempts \in 0..MaxAttempts
  /\ target_similarity = Zero
  /\ generated = <<>>
  /\ perfect_perms = <<>>
  /\ best_perm = None
  /\ best_similarity = Infinity
  /\ count = 0
  /\ accepted_earlier = FALSE
  /\ permutation = None
  /\ similarity_all = Zero
  /\ search_status = "loop"
  /\ exit_date = 0

\* The target scores randomise_until_target is called with.
Targets == {Zero, <<4, 25>>, <<1, 2>>}

\* The acceptance test with "at most" for "below".
AcceptsAtTarget(similarity_latest, all, allow, target) ==
  (allow \/ similarity_latest = Zero) /\ ~RatLess(target, all)

\* if (allow_imperfect or similarity_latest == 0)
\*    and similarity_all < target_similarity:
Accepts(similarity_latest, all, allow, target) ==
  (allow \/ similarity_latest = Zero) /\ RatLess(all, target)

\* The condition under which a candidate is to be returned: its weighted
\* score is strictly below the target and, unless imperfect results are
\* allowed, it repeats nothing of the latest round.
MeetsTarget(perm) ==
  /\ RatLess(weighted_similarity(perm, most_recent_perms), target_similarity)
  /\ allow_imperfect \/ PerPersonScore(perm, most_recent_perms[1]) = Zero

\* The body of one pass of "while True" in randomise_until_target, after
\* count += 1, for one outcome of randomise.  most_recent_perms[0] raises
\* IndexError on an empty history; an exception raised by randomise ends the
\* call.  The print every 1000th pass changes nothing.  The local
\* permutation is recorded when it is returned.
TargetBody(out) ==
  /\ IF out.status # "returned" THEN
       /\ search_status' = out.status
       /\ UNCHANGED <<best_similarity, permutation, accepted_earlier>>
     ELSE IF Len(most_recent_perms) = 0 THEN
       /\ search_status' = "IndexError"
       /\ UNCHANGED <<best_similarity, permutation, accepted_earlier>>
     ELSE
       LET candidate == Dated(out.perm, most_recent_perms)
           similarity_latest ==
             PerPersonScore(candidate, most_recent_perms[1])
           all == weighted_similarity(candidate, most_recent_perms)
           accept == Accepts(similarity_latest, all, allow_imperfect,
                             target_similarity)
       IN
       /\ best_similarity' =
            IF RatLess(all, best_similarity) THEN all ELSE best_similarity
       /\ IF accept
            THEN /\ permutation' = candidate
                 /\ search_status' = "returned"
                 /\ UNCHANGED accepted_earlier
            ELSE /\ accepted_earlier' =
                      (accepted_earlier \/ MeetsTarget(candidate))
                 /\ UNCHANGED <<permutation, search_status>>
  /\ UNCHANGED <<most_recent_perms, allow_imperfect, n_attempts,
                 target_similarity, generated, perfect_perms, best_perm,
                 similarity_all, exit_date, genVars, simVars, pairVars,
                 jsonVars, leaderVars>>

\* One pass of "while True" in randomise_until_target, the passes followed
\* being counted up to MaxCount.
TargetIterate ==
  /\ search_status = "loop"
  /\ count < MaxCount
  /\ count' = count + 1
  /\ \E out \in Candidates : TargetBody(out)

\* One pass of "while True" in which randomise has the outcome `out`, the
\* loop being followed without end: count, which only selects the passes
\* that print, is counted up to MaxCount and kept there.
TargetPass(out) ==
  /\ search_status = "loop"
  /\ count' = IF count < MaxCount THEN count + 1 ELSE count
  /\ TargetBody(out)

\* randomise_until_target(args.target, args.allow_imperfect,
\* most_recent_perms, ...) after its first two assignments.
TargetStart ==
  /\ \E len \in 0..MaxHistory : most_recent_perms \in Histories(len)
  /\ allow_imperfect \in BOOLEAN
  /\ n_attempts = 0
  /\ target_similarity \in Targets
  /\ generated = <<>>
  /\ perfect_perms = <<>>
  /\ best_perm = None
  /\ best_similarity = Infinity
  /\ count = 0
  /\ accepted_earlier = FALSE
  /\ permutation = None
  /\ similarity_all = Zero
  /\ search_status = "loop"
  /\ exit_date = 0

(***************************************************************************)
(* main.py: Grouping.similarity_to, called on its own.                     *)
(***************************************************************************)

\* excluding=None
NotGiven == [given |-> FALSE, members |-> {}]

\* if excluding is not None: excluding = set(excluding)
\* else: excluding = set()
ExcludingSet(arg) == IF arg.given THEN arg.members ELSE {}

\* The groupings over the participants 1..people: any leader, any others
\* (what Grouping.__init__ accepts: others may name the leader again).
Groupings(people) ==
  {Grouping(l, S) : l \in 1..people, S \in SUBSET (1..people)}

PairStart ==
  /\ grouping_self \in Groupings(PairPeople)
  /\ grouping_other \in Groupings(PairPeople)
  /\ grouping_excluding \in {NotGiven} \cup
                   {[given |-> TRUE, members |-> E] :
                      E \in SUBSET (1..PairPeople)}
  /\ grouping_result = [status |-> "ready", forward |-> 0, backward |-> 0]

PairIdle ==
  /\ grouping_self = Grouping(1, {})
  /\ grouping_other = Grouping(1, {})
  /\ grouping_excluding = NotGiven
  /\ grouping_result = [status |-> "idle", forward |-> 0, backward |-> 0]

\* grouping_self.similarity_to(grouping_other, grouping_excluding)
grouping_similarity_to ==
  /\ grouping_result.status = "ready"
  /\ grouping_result' =
       [grouping_result EXCEPT
          !.status = "forward",
          !.forward = GroupingSimilarity(grouping_self, grouping_other,
                                         ExcludingSet(grouping_excluding))]
  /\ UNCHANGED <<grouping_self, grouping_other, grouping_excluding, genVars,
                 simVars, searchVars, jsonVars, leaderVars>>

\* grouping_other.similarity_to(grouping_self, grouping_excluding): the same
\* call with the two groupings exchanged.
grouping_similarity_back ==
  /\ grouping_result.status = "forward"
  /\ grouping_result' =
       [grouping_result EXCEPT
          !.status = "both",
          !.backward = GroupingSimilarity(grouping_other, grouping_self,
                                          ExcludingSet(grouping_excluding))]
  /\ UNCHANGED <<grouping_self, grouping_other, grouping_excluding, genVars,
                 simVars, searchVars, jsonVars, leaderVars>>

(***************************************************************************)
(* main.py: saving and loading a round.                                    *)
(*                                                                         *)
(* A date is a record [year, month, day]; a string is a sequence of        *)
(* one-character strings.  The document json.dumps writes and json.loads   *)
(* reads back is the dictionary of strings and lists itself, which the     *)
(* json module keeps as it is.                                             *)
(***************************************************************************)

DigitChars == <<"0", "1", "2", "3", "4", "5", "6", "7", "8", "9">>

\* The decimal digits of n >= 0, without padding.
RECURSIVE Decimal(_)
Decimal(n) ==
  IF n < 10 THEN <<DigitChars[n + 1]>>
  ELSE Append(Decimal(n \div 10), DigitChars[(n % 10) + 1])

\* s padded with zeros on the left to at least `width` characters.
RECURSIVE ZeroPad(_, _)
ZeroPad(s, width) == IF Len(s) >= width THEN s ELSE ZeroPad(<<"0">> \o s, width)

\* date.strftime("%Y-%m-%d").  %m and %d are two digits.  %Y is the year as
\* the platform's C library writes it: without padding (glibc) or padded to
\* four digits (others); both are outcomes.
Strftime(date) ==
  {year \o <<"-">> \o ZeroPad(Decimal(date.month), 2)
        \o <<"-">> \o ZeroPad(Decimal(date.day), 2) :
     year \in {Decimal(date.year), ZeroPad(Decimal(date.year), 4)}}

IsDigit(c) == \E i \in 1..10 : DigitChars[i] = c

DigitValue(c) == (CHOOSE i \in 1..10 : DigitChars[i] = c) - 1

\* int(s) for a string of digits
RECURSIVE Number(_)
Number(s) ==
  IF Len(s) = 0 THEN 0
  ELSE 10 * Number(SubSeq(s, 1, Len(s) - 1)) + DigitValue(s[Len(s)])

IsLeap(year) == (year % 4 = 0 /\ year % 100 # 0) \/ year % 400 = 0

DaysInMonth(year, month) ==
  IF month = 2 THEN (IF IsLeap(year) THEN 29 ELSE 28)
  ELSE IF month \in {4, 6, 9, 11} THEN 30 ELSE 31

\* datetime.date.fromisoformat(s) for a string of digits and hyphens: the
\* string has to be YYYY-MM-DD and name a day of the calendar; anything else
\* raises ValueError.  The result is a record [status, date].
FromIsoFormat(s) ==
  LET shaped == /\ Len(s) = 10
                /\ s[5] = "-" /\ s[8] = "-"
                /\ \A i \in {1, 2, 3, 4, 6, 7, 9, 10} : IsDigit(s[i])
      year == Number(SubSeq(s, 1, 4))
      month == Number(SubSeq(s, 6, 7))
      day == Number(SubSeq(s, 9, 10))
      NoDate == [year |-> 0, month |-> 0, day |-> 0]
  IN
  IF ~shaped THEN [status |-> "ValueError", date |-> NoDate]
  ELSE IF year < 1 \/ month \notin 1..12 \/ day \notin 1..DaysInMonth(year, month)
    THEN [status |-> "ValueError", date |-> NoDate]
  ELSE [status |-> "ok",
        date |-> [year |-> year, month |-> month, day |-> day]]

\* list(self.others): the members of the set in any order.
ListOf(S) == {l \in [1..Cardinality(S) -> S] : IsInjective(l)}

\* Grouping._asdict
GroupingAsDict(g) ==
  {[leader |-> g.leader, others |-> l] : l \in ListOf(g.others)}

\* Grouping.from_dict: Grouping.__init__ turns the list into a set.
GroupingFromDict(d) == Grouping(d.leader, Range(d.others))

\* Permutation._asdict (what to_json dumps): the set of documents.
PermutationAsDict(p) ==
  {[date |-> text, groups |-> gs] :
     text \in Strftime(p.date),
     gs \in {l \in [1..Len(p.groups) ->
                      UNION {GroupingAsDict(p.groups[k]) :
                               k \in 1..Len(p.groups)}] :
               \A k \in 1..Len(p.groups) : l[k] \in GroupingAsDict(p.groups[k])}}

\* Permutation.from_json: a record [status, perm].
PermutationFromJson(d) ==
  LET parsed == FromIsoFormat(d.date) IN
  IF parsed.status # "ok"
    THEN [status |-> "ValueError", perm |-> Permutation(parsed.date, <<>>)]
    ELSE [status |-> "loaded",
          perm |-> Permutation(parsed.date,
                               [k \in 1..Len(d.groups) |->
                                  GroupingFromDict(d.groups[k])])]

\* The dates of the rounds saved: years of three and of four digits, months
\* and days of one and of two digits.
JsonDates ==
  {[year |-> y, month |-> m, day |-> d] :
     y \in {999, 2024}, m \in {3, 12}, d \in {5, 31}}

NoDocument == [date |-> <<>>, groups |-> <<>>]

JsonStart ==
  /\ \E date \in JsonDates, len \in 0..JsonGroups :
       \E gs \in [1..len -> Groupings(PairPeople)] :
         json_perm = Permutation(date, gs)
  /\ json_text = NoDocument
  /\ json_loaded = None
  /\ json_status = "ready"

JsonIdle ==
  /\ json_perm = None
  /\ json_text = NoDocument
  /\ json_loaded = None
  /\ json_status = "idle"

\* Permutation.to_json / to_json_file
to_json ==
  /\ json_status = "ready"
  /\ json_text' \in PermutationAsDict(json_perm)
  /\ json_status' = "saved"
  /\ UNCHANGED <<json_perm, json_loaded, genVars, simVars, searchVars,
                 pairVars, leaderVars>>

\* Permutation.from_json / from_json_file
from_json ==
  /\ json_status = "saved"
  /\ LET out == PermutationFromJson(json_text) IN
       /\ json_status' = out.status
       /\ json_loaded' = IF out.status = "loaded" THEN out.perm ELSE json_loaded
  /\ UNCHANGED <<json_perm, json_text, genVars, simVars, searchVars,
                 pairVars, leaderVars>>

(***************************************************************************)
(* leader.py                                                               *)
(***************************************************************************)

\* The (round, group) positions of a list of rounds: what
\* "for perm in prev_perms: for group in perm.groups" runs over.
GroupPositions(perms) ==
  UNION {{<<i, k>> : k \in 1..Len(perms[i].groups)} : i \in 1..Len(perms)}

\* The people count_lead_occasions and count_lead_fraction have a key for.
Scored(perms) ==
  UNION {participants(perms[ik[1]].groups[ik[2]]) : ik \in GroupPositions(perms)}

\* lead_occasions[group.leader] += 1, over all groups of all rounds
TimesLed(perms, person) ==
  Cardinality({ik \in GroupPositions(perms) :
                 perms[ik[1]].groups[ik[2]].leader = person})

\* total_occasions[person] = total_occasions.get(person, 0) + 1
TimesIn(perms, person) ==
  Cardinality({ik \in GroupPositions(perms) :
                 person \in participants(perms[ik[1]].groups[ik[2]])})

\* def count_lead_occasions(): every participant seen is backfilled with 0.
count_lead_occasions(perms) ==
  [person \in Scored(perms) |-> <<TimesLed(perms, person), 1>>]

\* def count_lead_fraction()
count_lead_fraction(perms) ==
  [person \in Scored(perms) |->
     Ratio(TimesLed(perms, person), TimesIn(perms, person))]

\* First-timers scored 0 whatever score_for_first_timers is.
ZeroForFirstTimers(lead_scores, first, person) ==
  IF person \in DOMAIN lead_scores THEN lead_scores[person] ELSE Zero

\* def get_lead_score(person): lead_scores[person], or on KeyError
\* score_for_first_timers(person).
get_lead_score(lead_scores, first, person) ==
  IF person \in DOMAIN lead_scores THEN lead_scores[person] ELSE first

\* min(get_lead_score(p) for p in participants)
MinScore(lead_scores, first, people) ==
  LET score(q) == get_lead_score(lead_scores, first, q) IN
  score(CHOOSE q \in people : \A x \in people : ~RatLess(score(x), score(q)))

\* Every participant is a candidate, whatever the scores.
AllParticipants(lead_scores, first, people) == people

\* [p for p in participants if get_lead_score(p) == min_score]
MinScoreParticipants(lead_scores, first, people) ==
  {q \in people :
     get_lead_score(lead_scores, first, q) = MinScore(lead_scores, first, people)}

\* The new leader left among the others.
NewOthersKeepingLeader(people, new_leader) == people

\* [p for p in participants if p != new_leader]
NewOthers(people, new_leader) == people \ {new_leader}

\* The new leader on their own, the others dropped.
AdjustGroupAlone(group, new_leader) == Grouping(new_leader, {})

\* Grouping(leader=new_leader, others=new_others)
AdjustGroup(group, new_leader) ==
  Grouping(new_leader, NewOthers(participants(group), new_leader))

\* def adjust_leaders(perm, metric, score_for_first_timers): the outcomes, a
\* record [status, perm].  random.choice may return any of the participants
\* of lowest score, in each group on its own.
AdjustLeadersOutcomes(p, m, first, perms) ==
  IF m \notin {"lead_fraction", "lead_occasions"}
    THEN {[status |-> "ValueError", perm |-> None]}
  ELSE
    LET lead_scores == IF m = "lead_fraction"
                         THEN count_lead_fraction(perms)
                         ELSE count_lead_occasions(perms)
        candidates(k) ==
          MinScoreParticipants(lead_scores, first, participants(p.groups[k]))
        choices == {c \in [1..Len(p.groups) -> PermParticipants(p)] :
                      \A k \in 1..Len(p.groups) : c[k] \in candidates(k)}
    IN {[status |-> "returned",
         perm |-> Permutation(p.date,
                              [k \in 1..Len(p.groups) |->
                                 AdjustGroup(p.groups[k], c[k])])] :
          c \in choices}

\* The groups a round of the participants 1..people is made of: a leader
\* and others.
LeaderGroupings(people) ==
  {Grouping(l, S \ {l}) : l \in 1..people, S \in SUBSET (1..people)}

\* The lists of groups in which nobody is in two groups: the rounds stored.
StoredRounds(people) ==
  {SetToSeq(G) :
     G \in {H \in (SUBSET LeaderGroupings(people)) \ {{}} :
              \A g, h \in H : g # h => participants(g) \cap participants(h) = {}}}

\* The lists of groups the search returns: everybody is in one group.
ChosenRounds(people) ==
  {r \in StoredRounds(people) :
     UNION {participants(r[k]) : k \in 1..Len(r)} = 1..people}

\* lambda _: inf (the default) and lambda _: 0
FirstTimerScores == {Infinity, Zero}

NoStats == [status |-> "none"]

\* main, as it calls adjust_leaders: the rounds of "previous", most recent
\* first, and the round the search returned.
LeaderStart ==
  /\ \E len \in 0..LeaderHistory :
       \E rounds \in [1..len -> StoredRounds(LeaderPeople)] :
         prev_perms = [i \in 1..len |-> Permutation(len + 1 - i, rounds[i])]
  /\ \E r \in ChosenRounds(LeaderPeople) :
       adjust_perm = Permutation(Len(prev_perms) + 1, r)
  /\ adjust_perm_in = adjust_perm
  /\ metric \in {"lead_fraction", "lead_occasions", "lead_count"}
  /\ score_for_first_timers \in FirstTimerScores
  /\ new_perm = None
  /\ stats_before = {}
  /\ stats_after = NoStats
  /\ leader_status = "ready"

LeaderIdle ==
  /\ prev_perms = <<>>
  /\ adjust_perm = None
  /\ adjust_perm_in = None
  /\ metric = "lead_fraction"
  /\ score_for_first_timers = Infinity
  /\ new_perm = None
  /\ stats_before = {}
  /\ stats_after = NoStats
  /\ leader_status = "idle"

\* permutation = adjust_leaders(permutation): the argument is read only.
adjust_leaders ==
  /\ leader_status = "ready"
  /\ \E out \in AdjustLeadersOutcomes(adjust_perm, metric,
                                      score_for_first_timers, prev_perms) :
       /\ leader_status' = out.status
       /\ new_perm' = out.perm
  /\ UNCHANGED <<prev_perms, adjust_perm, adjust_perm_in, metric,
                 score_for_first_timers, stats_before, stats_after,
                 genVars, simVars, searchVars, pairVars, jsonVars>>

\* One pass of "for prev_perm in most_recent_perms[:4]:
\* print(permutation.similarity_to(prev_perm))" in main; stats_before keeps
\* what the round gave before its leaders were adjusted.
SimilarityToPrevious ==
  /\ leader_status = "returned"
  /\ \E i \in 1..Min(4, Len(prev_perms)) :
       /\ stats_after' \in SimilarityOutcomes(new_perm, prev_perms[i], "linear")
       /\ stats_before' = SimilarityOutcomes(adjust_perm, prev_perms[i], "linear")
  /\ leader_status' = "compared"
  /\ UNCHANGED <<prev_perms, adjust_perm, adjust_perm_in, metric,
                 score_for_first_timers, new_perm, genVars, simVars,
                 searchVars, pairVars, jsonVars>>

\* The parts that no call of a specification touches.
RestIdle == PairIdle /\ JsonIdle /\ LeaderIdle

GenInit == GenStart /\ SimIdle /\ SearchIdle /\ RestIdle

GenNext == random_groups

SpecGen == GenInit /\ [][GenNext]_vars

SimInit == SimStart /\ GenIdle /\ SearchIdle /\ RestIdle

SimNext == similarity_to

SpecSim == SimInit /\ [][SimNext]_vars

WeightedInit == WeightedStart /\ GenIdle /\ SimIdle /\ RestIdle

WeightedNext == WeightedSimilarity

SpecWeighted == WeightedInit /\ [][WeightedNext]_vars

BestInit == BestStart /\ GenIdle /\ SimIdle /\ RestIdle

BestNext == BestIterate \/ BestChoose

SpecBest == BestInit /\ [][BestNext]_vars

TargetInit == TargetStart /\ GenIdle /\ SimIdle /\ RestIdle

TargetNext == TargetIterate

SpecTarget == TargetInit /\ [][TargetNext]_vars

\* The unbounded loop of randomise_until_target.
TargetFairNext == \E out \in Candidates : TargetPass(out)

\* A pass in which randomise returns a partition whose weighted similarity
\* is below the target and which, unless imperfect results are allowed,
\* repeats nothing of the latest round (an empty history counting as
\* similarity 0).
AcceptablePass ==
  \E out \in Candidates :
    /\ out.status = "returned"
    /\ LET candidate == Dated(out.perm, most_recent_perms) IN
         /\ RatLess(weighted_similarity(candidate, most_recent_perms),
                    target_similarity)
         /\ \/ allow_imperfect
            \/ TrialSimilarity(candidate, most_recent_perms) = Zero
    /\ TargetPass(out)

\* A fair generator returns every partition again and again, so while the
\* loop runs a pass with such a partition is eventually taken.
FairGenerator == WF_vars(AcceptablePass)

SpecTargetFair == TargetInit /\ [][TargetFairNext]_vars /\ FairGenerator

PairInit ==
  PairStart /\ GenIdle /\ SimIdle /\ SearchIdle /\ JsonIdle /\ LeaderIdle

PairNext == grouping_similarity_to \/ grouping_similarity_back

SpecPair == PairInit /\ [][PairNext]_vars

JsonInit ==
  JsonStart /\ GenIdle /\ SimIdle /\ SearchIdle /\ PairIdle /\ LeaderIdle

JsonNext == to_json \/ from_json

SpecJson == JsonInit /\ [][JsonNext]_vars

LeaderInit ==
  LeaderStart /\ GenIdle /\ SimIdle /\ SearchIdle /\ PairIdle /\ JsonIdle

LeaderNext == adjust_leaders \/ SimilarityToPrevious

SpecLeader == LeaderInit /\ [][LeaderNext]_vars

(***************************************************************************)
(* Properties of random_groups (checked under SpecGen).                    *)
(***************************************************************************)
GenN == Len(elements_in)
GenQ == GenN \div group_size
GenR == GenN % group_size

\* The groups (0 or more) of the returned list that contain participant p.
GroupsOf(p) == {k \in 1..Len(groups) : p \in Range(groups[k])}

\* C1. Partition completeness: the groups returned by random_groups together
\* contain exactly the participants passed in, each participant in exactly
\* one group and once in it.
C1_PartitionCompleteness ==
  gen_status = "returned" =>
    /\ UNION {Range(groups[k]) : k \in 1..Len(groups)} = Range(elements_in)
    /\ \A p \in Range(elements_in) : Cardinality(GroupsOf(p)) = 1
    /\ \A k \in 1..Len(groups) : IsInjective(groups[k])

\* A partition was returned after a remainder was spread over several groups.
C1_Witness ==
  /\ gen_status = "returned"
  /\ GenR > 0
  /\ Len(groups) >= 2

C3_RemainderAboveGroups ==
  (gen_status # "ready" /\ GenQ >= 1 /\ GenR > GenQ) =>
    /\ gen_status = "returned"
    /\ \A p \in Range(elements_in) : Cardinality(GroupsOf(p)) = 1

\* C4. Too few participants: with 0 < n < group_size the call fails with
\* ValueError (the program's invalid-argument error) and returns no groups.
C4_TooFewRejected ==
  (gen_status # "ready" /\ GenN > 0 /\ GenQ = 0) =>
    /\ gen_status = "ValueError"
    /\ groups = <<>>

\* random_groups was called with fewer participants than one group and failed.
C4_Witness ==
  /\ gen_status = "ValueError"
  /\ GenN > 0
  /\ GenN < group_size

(***************************************************************************)
(* Properties of Permutation.similarity_to (checked under SpecSim).        *)
(***************************************************************************)

\* Every participant of the round is in exactly one of its groups.
WellFormed(perm) ==
  \A p \in PermParticipants(perm) :
    Cardinality({k \in 1..Len(perm.groups) :
                   p \in participants(perm.groups[k])}) = 1

\* Some participant of the round is in more than one of its groups.
IsDuplicatedIn(perm, p) ==
  Cardinality({k \in 1..Len(perm.groups) :
                 p \in participants(perm.groups[k])}) > 1

\* p and x share a group of the round.
Together(perm, p, x) ==
  \E k \in 1..Len(perm.groups) :
    p \in participants(perm.groups[k]) /\ x \in participants(perm.groups[k])

SimAll == PermParticipants(self_perm) \cup PermParticipants(other_perm)

\* The people other than p who are with p in both rounds.
RepeatPartners(p) ==
  {x \in SimAll \ {p} :
     Together(self_perm, p, x) /\ Together(other_perm, p, x)}

\* Sum over p of s_p, counted as pairs (p, x) with x a repeat partner of p.
LinearTotal ==
  Cardinality({pair \in SimAll \X SimAll : pair[2] \in RepeatPartners(pair[1])})

\* Sum over p of s_p squared, counted as triples (p, x, y) with x and y
\* repeat partners of p.
QuadraticTotal ==
  Cardinality({t \in SimAll \X SimAll \X SimAll :
                 t[2] \in RepeatPartners(t[1]) /\ t[3] \in RepeatPartners(t[1])})

\* C5. Permutation similarity score: on two well-formed rounds with at least
\* one participant, similarity_to returns persons_with_repeats = the map
\* p -> s_p over the persons with s_p > 0 (s_p = number of people other than
\* p who are in both of p's groups), and per_person_score = the sum of s_p
\* (linear) or of s_p squared (quadratic) divided by the number of
\* participants of either round, absent participants included.
C5_SimilarityScore ==
  (/\ sim_result.status \notin {"ready", "idle"}
   /\ WellFormed(self_perm) /\ WellFormed(other_perm)
   /\ SimAll # {}) =>
    /\ sim_result.status = "ok"
    /\ DOMAIN sim_result.persons_with_repeats =
         {p \in SimAll : RepeatPartners(p) # {}}
    /\ \A p \in DOMAIN sim_result.persons_with_repeats :
         sim_result.persons_with_repeats[p] = Cardinality(RepeatPartners(p))
    /\ sim_result.per_person_score[2] > 0
    /\ sim_result.per_person_score[1] * Cardinality(SimAll) =
         sim_result.per_person_score[2] *
           (IF weighting = "linear" THEN LinearTotal ELSE QuadraticTotal)

\* Two well-formed rounds were compared under quadratic weighting, somebody
\* met the same person again and somebody took part in one round only.
C5_Witness ==
  /\ sim_result.status = "ok"
  /\ weighting = "quadratic"
  /\ WellFormed(self_perm) /\ WellFormed(other_perm)
  /\ \E p \in SimAll : RepeatPartners(p) # {}
  /\ PermParticipants(self_perm) # PermParticipants(other_perm)

\* C6. Consistency error: when some participant is in more than one group
\* of either round, similarity_to raises ValueError naming a duplicated
\* participant and the date of the round that duplicates them; no stats
\* are returned.
C6_ConsistencyError ==
  (/\ sim_result.status \notin {"ready", "idle"}
   /\ \E p \in SimAll :
        IsDuplicatedIn(self_perm, p) \/ IsDuplicatedIn(other_perm, p)) =>
    /\ sim_result.status = "ValueError"
    /\ \/ /\ sim_result.date = self_perm.date
          /\ IsDuplicatedIn(self_perm, sim_result.person)
       \/ /\ sim_result.date = other_perm.date
          /\ IsDuplicatedIn(other_perm, sim_result.person)

(***************************************************************************)
(* Properties of weighted_similarity (checked under SpecWeighted).         *)
(***************************************************************************)

\* weight_i * per_person_score(permutation, history[i]) for the i-th most
\* recent round (i from 1), 0 when there is no such round; the weights are
\* written as tenths: 10, 8, 5, 2.
TenfoldTerm(i) ==
  IF i <= Len(most_recent_perms)
    THEN RatMul(<<(<<10, 8, 5, 2>>)[i], 1>>,
                PerPersonScore(permutation, most_recent_perms[i]))
    ELSE Zero

\* Ten times the weighted sum over the first min(k, 4) rounds.
TenfoldSum ==
  RatAdd(RatAdd(TenfoldTerm(1), TenfoldTerm(2)),
         RatAdd(TenfoldTerm(3), TenfoldTerm(4)))

\* Ten times the sum of the weights of the first min(k, 4) rounds.
TenfoldUsedWeights ==
  LET k == Min(Len(most_recent_perms), 4) IN
  IF k = 0 THEN 0 ELSE IF k = 1 THEN 10 ELSE IF k = 2 THEN 18
  ELSE IF k = 3 THEN 23 ELSE 25

\* C9 as stated. The weighted score is the weighted sum over the first
\* min(k, 4) rounds divided by the sum of the weights used; with one round
\* of history it equals the similarity to history[0].
C9_DividedByUsedWeights ==
  (search_status = "weighed" /\ Len(most_recent_perms) >= 1) =>
    /\ RatMul(similarity_all, <<TenfoldUsedWeights, 1>>) = TenfoldSum
    /\ Len(most_recent_perms) = 1 =>
         similarity_all = PerPersonScore(permutation, most_recent_perms[1])

\* C9 as amended. The weighted score is the weighted sum over the first
\* min(k, 4) rounds divided by 2.5, the sum of all four weights, for every
\* k; with one round of history it is the similarity to history[0] divided
\* by 2.5.
C9_DividedByAllWeights ==
  search_status = "weighed" =>
    /\ RatMul(similarity_all, <<25, 1>>) = TenfoldSum
    /\ Len(most_recent_perms) = 1 =>
         RatMul(similarity_all, <<5, 2>>) =
           PerPersonScore(permutation, most_recent_perms[1])

\* A round was weighed against fewer than four previous rounds, one of which
\* it repeats in part.
C9_Witness ==
  /\ search_status = "weighed"
  /\ Len(most_recent_perms) \in 1..3
  /\ similarity_all # Zero

(***************************************************************************)
(* Properties of choose_best_of (checked under SpecBest).                  *)
(***************************************************************************)

\* The candidate repeats nothing of the latest round (or there is none).
IsPerfect(perm) ==
  Len(most_recent_perms) = 0
    \/ PerPersonScore(perm, most_recent_perms[1]) = Zero

\* The similarity of a candidate to the latest round.
LatestScore(perm) == PerPersonScore(perm, most_recent_perms[1])

\* The weighted historical similarity of a candidate.
WeightedScore(perm) == weighted_similarity(perm, most_recent_perms)

\* choose_best_of has returned or failed.
BestFinished == search_status \in {"returned", "exit", "IndexError"}

\* C7. Best-of-N with a perfect candidate: when at least one generated
\* candidate has similarity 0 to history[0] (or the history is empty),
\* choose_best_of returns a generated candidate that is perfect and whose
\* weighted historical similarity is the lowest among the perfect
\* candidates generated, whatever allow_imperfect is.
C7_BestOfPerfect ==
  (BestFinished /\ \E i \in 1..Len(generated) : IsPerfect(generated[i])) =>
    /\ search_status = "returned"
    /\ \E i \in 1..Len(generated) : permutation = generated[i]
    /\ IsPerfect(permutation)
    /\ \A i \in 1..Len(generated) :
         IsPerfect(generated[i]) =>
           ~RatLess(WeightedScore(generated[i]), WeightedScore(permutation))

\* choose_best_of returned, without allow_imperfect, after generating two
\* perfect candidates of different weighted similarity.
C7_Witness ==
  /\ search_status = "returned"
  /\ ~allow_imperfect
  /\ Len(most_recent_perms) >= 2
  /\ \E i, j \in 1..Len(generated) :
       /\ IsPerfect(generated[i]) /\ IsPerfect(generated[j])
       /\ RatLess(WeightedScore(generated[i]), WeightedScore(generated[j]))

\* At least one candidate was generated and none is perfect.
NonePerfect ==
  /\ Len(generated) >= 1
  /\ \A i \in 1..Len(generated) : ~IsPerfect(generated[i])

\* C8. Best-of-N with no perfect candidate: with allow_imperfect set
\* choose_best_of returns the generated candidate of lowest similarity to
\* history[0]; without it the call fails through error(), naming the date
\* of history[0], and returns no permutation; so a permutation returned
\* without allow_imperfect has similarity 0 to history[0].
C8_BestOfImperfect ==
  BestFinished =>
    /\ (NonePerfect /\ allow_imperfect) =>
         /\ search_status = "returned"
         /\ \E i \in 1..Len(generated) : permutation = generated[i]
         /\ \A i \in 1..Len(generated) :
              ~RatLess(LatestScore(generated[i]), LatestScore(permutation))
    /\ (NonePerfect /\ ~allow_imperfect) =>
         /\ search_status = "exit"
         /\ exit_date = most_recent_perms[1].date
         /\ permutation = None
    /\ (search_status = "returned" /\ ~allow_imperfect
          /\ Len(most_recent_perms) >= 1) =>
         /\ permutation # None
         /\ LatestScore(permutation) = Zero

\* choose_best_of returned an imperfect candidate after generating two
\* imperfect candidates of different similarity to history[0].
C8_Witness ==
  /\ search_status = "returned"
  /\ allow_imperfect
  /\ NonePerfect
  /\ \E i, j \in 1..Len(generated) :
       RatLess(LatestScore(generated[i]), LatestScore(generated[j]))

(***************************************************************************)
(* Properties of randomise_until_target (checked under SpecTarget).        *)
(***************************************************************************)

\* C10. Target-score acceptance: randomise_until_target returns only a
\* candidate whose weighted historical similarity is strictly below
\* target_similarity and whose similarity to history[0] is 0 unless
\* allow_imperfect is set, and no earlier candidate met that condition.
C10_TargetAcceptance ==
  search_status = "returned" =>
    /\ RatLess(WeightedScore(permutation), target_similarity)
    /\ allow_imperfect \/ LatestScore(permutation) = Zero
    /\ ~accepted_earlier

\* randomise_until_target returned a perfect candidate, imperfect results
\* not being allowed, after passing over at least one candidate.
C10_Witness ==
  /\ search_status = "returned"
  /\ ~allow_imperfect
  /\ count >= 2
  /\ target_similarity # Zero

\* C11. Empty history is tolerated: with an empty history the target search
\* raises nothing, scores the candidate 0 against the previous round and,
\* the target being above 0, returns the first candidate it generates.
C11_EmptyHistoryTolerated ==
  (/\ Len(most_recent_perms) = 0
   /\ count >= 1
   /\ RatLess(Zero, target_similarity)) =>
    /\ search_status = "returned"
    /\ count = 1
    /\ permutation # None

(***************************************************************************)
(* Further properties of choose_best_of (checked under SpecBest).          *)
(***************************************************************************)

\* C15. Non-positive attempt budget: with n_attempts <= 0 choose_best_of
\* fails with an invalid-argument error, whatever allow_imperfect and the
\* history are, and returns no permutation, in particular not None.
C15_NonPositiveBudget ==
  (BestFinished /\ n_attempts <= 0) =>
    /\ search_status = "InvalidArgument"
    /\ permutation = None

(***************************************************************************)
(* Further properties of random_groups (checked under SpecGen).            *)
(***************************************************************************)

\* C19. The roster is read-only: after random_groups has returned, the list
\* the caller passed holds the same participants in the same order.
C19_RosterReadOnly ==
  gen_status = "returned" => elements = elements_in

(***************************************************************************)
(* Further properties of Permutation.similarity_to (checked under SpecSim). *)
(***************************************************************************)

\* What self_perm.similarity_to(other_perm) returns as per_person_score
\* under the default, linear weighting.
LinearScore == PerPersonScore(self_perm, other_perm)

\* C18. Quadratic dominates linear: on two well-formed rounds with at least
\* one repeat the per_person_score under quadratic weighting is at least
\* the per_person_score under linear weighting, and the two are equal
\* exactly when every overlap in persons_with_repeats is 1.
C18_QuadraticDominates ==
  (/\ sim_result.status = "ok"
   /\ weighting = "quadratic"
   /\ WellFormed(self_perm) /\ WellFormed(other_perm)
   /\ DOMAIN sim_result.persons_with_repeats # {}) =>
    /\ ~RatLess(sim_result.per_person_score, LinearScore)
    /\ (sim_result.per_person_score = LinearScore) <=>
         (\A p \in DOMAIN sim_result.persons_with_repeats :
            sim_result.persons_with_repeats[p] = 1)

\* Two well-formed rounds were compared under quadratic weighting, somebody
\* met two people again, and the score is above the linear one.
C18_Witness ==
  /\ sim_result.status = "ok"
  /\ weighting = "quadratic"
  /\ WellFormed(self_perm) /\ WellFormed(other_perm)
  /\ \E p \in DOMAIN sim_result.persons_with_repeats :
       sim_result.persons_with_repeats[p] = 2
  /\ RatLess(LinearScore, sim_result.per_person_score)

(***************************************************************************)
(* Properties of Grouping.similarity_to (checked under SpecPair).          *)
(***************************************************************************)

\* The people who are in both groupings and not excluded.
SharedOutside ==
  {x \in 1..PairPeople :
     /\ x = grouping_self.leader \/ x \in grouping_self.others
     /\ x = grouping_other.leader \/ x \in grouping_other.others
     /\ ~(grouping_excluding.given /\ x \in grouping_excluding.members)}

\* C17. Grouping similarity: similarity(A, B, E) is the number of people who
\* are participants of A and of B and not in E; it is the same with A and B
\* exchanged, it is not negative, and it is 0 exactly when A and B share no
\* member outside E.
C17_GroupingSimilarity ==
  grouping_result.status = "both" =>
    /\ grouping_result.forward = Cardinality(SharedOutside)
    /\ grouping_result.forward = grouping_result.backward
    /\ grouping_result.forward >= 0
    /\ (grouping_result.forward = 0) <=> (SharedOutside = {})

\* Two different groupings were compared both ways, with a member they share
\* excluded and another one counted.
C17_Witness ==
  /\ grouping_result.status = "both"
  /\ grouping_self # grouping_other
  /\ grouping_excluding.given
  /\ \E x \in grouping_excluding.members :
       x \in participants(grouping_self) \cap participants(grouping_other)
  /\ grouping_result.forward >= 1

(***************************************************************************)
(* Properties of saving and loading (checked under SpecJson).              *)
(***************************************************************************)

\* C16. Round trip: loading what to_json wrote yields a permutation with an
\* equal date, as many groups in the same order, and in each group the same
\* leader and the same set of others.
C16_RoundTrip ==
  json_status \in {"loaded", "ValueError"} =>
    /\ json_status = "loaded"
    /\ json_loaded.date = json_perm.date
    /\ Len(json_loaded.groups) = Len(json_perm.groups)
    /\ \A k \in 1..Len(json_perm.groups) :
         /\ json_loaded.groups[k].leader = json_perm.groups[k].leader
         /\ json_loaded.groups[k].others = json_perm.groups[k].others

(***************************************************************************)
(* Properties of adjust_leaders (checked under SpecLeader).                *)
(***************************************************************************)

\* The stored rounds in which the person led a group.
RoundsLed(person) ==
  {i \in 1..Len(prev_perms) :
     \E k \in 1..Len(prev_perms[i].groups) :
       prev_perms[i].groups[k].leader = person}

\* The stored rounds in which the person took part.
RoundsIn(person) ==
  {i \in 1..Len(prev_perms) : person \in PermParticipants(prev_perms[i])}

\* The person is in no stored round.
IsFirstTimer(person) == RoundsIn(person) = {}

\* The leadership score of a person under the metric of the call: the number
\* of rounds led (lead_occasions) or that number divided by the number of
\* rounds taken part in (lead_fraction); for a first-timer, the score the
\* caller supplies.  The result is a pair <<numerator, denominator>>.
LeadershipScore(person) ==
  IF IsFirstTimer(person) THEN score_for_first_timers
  ELSE IF metric = "lead_occasions"
    THEN <<Cardinality(RoundsLed(person)), 1>>
    ELSE <<Cardinality(RoundsLed(person)), Cardinality(RoundsIn(person))>>

\* adjust_leaders has returned a permutation.
Adjusted == leader_status \in {"returned", "compared"}

\* C12. Fairness minimality: after adjust_leaders, under either metric, the
\* leader of every group has a leadership score that is at most the score of
\* every participant of that group, and a participant whose score is below
\* that of everybody else in the group is the leader.
C12_FairnessMinimality ==
  Adjusted =>
    \A k \in 1..Len(adjust_perm_in.groups) :
      LET members == participants(adjust_perm_in.groups[k])
          leader == new_perm.groups[k].leader
      IN
      /\ \A q \in members :
           ~RatLess(LeadershipScore(q), LeadershipScore(leader))
      /\ \A q \in members :
           (\A x \in members \ {q} :
              RatLess(LeadershipScore(q), LeadershipScore(x))) => leader = q

\* Leaders were adjusted by lead_occasions in a group of three with scores
\* 2, 0 and 1 (the spec's scenario), and the leader changed.
C12_Witness ==
  /\ Adjusted
  /\ metric = "lead_occasions"
  /\ \E k \in 1..Len(adjust_perm_in.groups) :
       /\ participants(adjust_perm_in.groups[k]) = 1..LeaderPeople
       /\ {Cardinality(RoundsLed(q)) : q \in 1..LeaderPeople} = {0, 1, 2}
       /\ \A q \in 1..LeaderPeople : ~IsFirstTimer(q)
       /\ new_perm.groups[k].leader # adjust_perm_in.groups[k].leader

\* C13. The leader pass preserves the round: the permutation returned has
\* the date of the input, as many groups in the same order, and in each
\* group the participants of the input group, the new leader being one of
\* them and not among the new others; the input permutation is as it was.
C13_RoundPreserved ==
  Adjusted =>
    /\ new_perm.date = adjust_perm_in.date
    /\ Len(new_perm.groups) = Len(adjust_perm_in.groups)
    /\ \A k \in 1..Len(adjust_perm_in.groups) :
         /\ {new_perm.groups[k].leader} \cup new_perm.groups[k].others =
              participants(adjust_perm_in.groups[k])
         /\ new_perm.groups[k].leader \in participants(adjust_perm_in.groups[k])
         /\ new_perm.groups[k].leader \notin new_perm.groups[k].others
    /\ adjust_perm = adjust_perm_in

\* Leaders were adjusted in a round of two groups and a group of more than
\* one participant got another leader.
C13_Witness ==
  /\ Adjusted
  /\ Len(adjust_perm_in.groups) = 2
  /\ \E k \in 1..Len(adjust_perm_in.groups) :
       /\ new_perm.groups[k].leader # adjust_perm_in.groups[k].leader
       /\ new_perm.groups[k].others # {}

\* C14. First-timers under the default policy: with the default
\* score_for_first_timers (math.inf) no first-timer leads a group in which
\* somebody is in the stored rounds, and a group of first-timers only is led
\* by one of its members.
C14_FirstTimers ==
  (Adjusted /\ score_for_first_timers = Infinity) =>
    \A k \in 1..Len(adjust_perm_in.groups) :
      LET members == participants(adjust_perm_in.groups[k])
          leader == new_perm.groups[k].leader
      IN
      /\ (\E q \in members : ~IsFirstTimer(q)) => ~IsFirstTimer(leader)
      /\ leader \in members

\* Leaders were adjusted under the default policy in a round with a group of
\* first-timers only and a group where a first-timer led somebody who had
\* led every round they were in.
C14_Witness ==
  /\ Adjusted
  /\ score_for_first_timers = Infinity
  /\ \E k \in 1..Len(adjust_perm_in.groups) :
       \A q \in participants(adjust_perm_in.groups[k]) : IsFirstTimer(q)
  /\ \E k \in 1..Len(adjust_perm_in.groups) :
       /\ IsFirstTimer(adjust_perm_in.groups[k].leader)
       /\ \E q \in adjust_perm_in.groups[k].others :
            /\ ~IsFirstTimer(q)
            /\ RoundsLed(q) = RoundsIn(q)

\* C20. The similarity score does not depend on who leads: what the
\* permutation returned by adjust_leaders yields against a previous round,
\* per_person_score and persons_with_repeats, is what the permutation yields
\* before the pass; a perfect candidate stays perfect.
C20_SimilarityIgnoresLeader ==
  leader_status = "compared" =>
    /\ stats_after.status = "ok"
    /\ \E before \in stats_before :
         /\ before.status = "ok"
         /\ before.per_person_score = stats_after.per_person_score
         /\ before.persons_with_repeats = stats_after.persons_with_repeats
    /\ \A before \in stats_before :
         before.per_person_score = Zero <=> stats_after.per_person_score = Zero

\* A round whose leaders were changed was compared with a previous round in
\* which some of its participants had met.
C20_Witness ==
  /\ leader_status = "compared"
  /\ new_perm # adjust_perm_in
  /\ stats_after.status = "ok"
  /\ stats_after.per_person_score # Zero

(***************************************************************************)
(* Liveness of randomise_until_target (checked under SpecTargetFair).      *)
(***************************************************************************)

\* The candidate satisfies the acceptance condition: its weighted historical
\* similarity is strictly below the target and, unless imperfect results
\* are allowed, it repeats nothing of the latest round (an empty history
\* counting as similarity 0).
IsAcceptable(candidate) ==
  /\ RatLess(WeightedScore(candidate), target_similarity)
  /\ allow_imperfect \/ IsPerfect(candidate)

\* The generator can return a partition that satisfies the condition.
SomeAcceptable ==
  \E out \in Candidates :
    /\ out.status = "returned"
    /\ IsAcceptable(Dated(out.perm, most_recent_perms))

\* C21. Target search liveness: under a fair generator, when some partition
\* satisfies the acceptance condition, randomise_until_target eventually
\* returns, and the loop is left in no other way than by returning.  A call
\* that is still to return is in the loop, where the next pass is enabled;
\* so in every state the call has returned or is in the loop.
C21_TargetSearchLiveness ==
  SomeAcceptable => (search_status = "returned" \/ search_status = "loop")

====
